---- MODULE Spec2Model ----
(***************************************************************************)
(* A model of client.go of ssh-chat: one Client per SSH connection, with   *)
(* its request-negotiation loop (handleChannels), its command loop         *)
(* (handleShell), its output pump and its close-watcher.  The Server       *)
(* (registry) and the pty payload parsers are not part of client.go; they  *)
(* are modelled from the design document and marked where they appear.     *)
(*                                                                         *)
(* Strings are TLA+ strings; Len, SubSeq and \o act on them character by   *)
(* character, as Go's len, slicing and + do on ASCII text.                 *)
(***************************************************************************)
EXTENDS Integers, Sequences, FiniteSets, TLC

\* ------------------------------------------------------------------------
\* Program constants
\* ------------------------------------------------------------------------

\* client.go:12
MSG_BUFFER == 10

\* client.go:134, client.go:223 : the longest message that is broadcast
MAX_MSG_LEN == 1000

\* client.go:201 : time.Duration(5) * time.Minute, in seconds
DEFAULT_SILENCE == 300

\* client.go:150 : the longest client version /whois shows as it is
MAX_VERSION_LEN == 100

\* client.go:14-21
HELP_TEXT == "-> Available commands:\n   /about\n   /exit\n   /help\n   /list\n   /nick $NAME\n   /whois $NAME\n"

\* client.go:23-31
ABOUT_TEXT == "-> ssh-chat is made by @shazow.\n\n   It is a custom ssh server built in Go to serve a chat experience\n   instead of a shell.\n\n   Source: https://github.com/shazow/ssh-chat\n\n   For more, visit shazow.net or follow at twitter.com/shazow\n"

\* ------------------------------------------------------------------------
\* Bounds of the model
\* ------------------------------------------------------------------------

\* connections accepted (one Client each); the first two of them open channels
\* in the runs that start with NewClient
NumClients == 3

\* session channels accepted in one behaviour, over all connections
MaxChannels == 2

\* the clock runs from 1 to MaxTime (seconds)
MaxTime == 3

\* input lines handled in one behaviour of Spec
MaxLines == 1

\* input lines handled in one behaviour of SpecChat
MaxChatLines == 2

\* input lines handled in one behaviour of SpecSilence
MaxSilenceLines == 2

\* input lines handled in one behaviour of SpecCmd
MaxCmdLines == 2

\* input lines handled in one behaviour of SpecMail
MaxMailLines == 11

\* of these, lines of other sessions broadcast into the watched mailbox
MaxBroadcasts == 3

\* lines handled in the /exit runs
MaxExitLines == 2

\* chat lines sent towards a mailbox whose reader is stalled
MaxStallLines == 12

\* lines handled in the runs that drain a mailbox
MaxDrainLines == 12

\* ------------------------------------------------------------------------
\* Strings (package strings, fmt)
\* ------------------------------------------------------------------------

CharAt(s, i) == SubSeq(s, i, i)

\* the characters of a cutset
Chars(s) == { CharAt(s, i) : i \in 1..Len(s) }

\* strings.Index(s[from-1:], sep) for a one-character sep, as a 1-based
\* position in s; 0 when sep does not occur
IndexFrom(s, sep, from) ==
    LET hits == { i \in from..Len(s) : CharAt(s, i) = sep }
    IN  IF hits = {} THEN 0 ELSE CHOOSE i \in hits : \A j \in hits : i <= j

\* strings.SplitN(s, sep, n) for a one-character sep and n >= 1
RECURSIVE SplitN(_, _, _)
SplitN(s, sep, n) ==
    LET i == IndexFrom(s, sep, 1)
    IN  IF n <= 1 \/ i = 0
        THEN << s >>
        ELSE << SubSeq(s, 1, i - 1) >> \o SplitN(SubSeq(s, i + 1, Len(s)), sep, n - 1)

\* strings.Split(s, sep): no limit on the number of parts
Split(s, sep) == SplitN(s, sep, Len(s) + 1)

\* strings.HasPrefix
HasPrefix(s, p) == Len(s) >= Len(p) /\ SubSeq(s, 1, Len(p)) = p

\* strings.TrimLeft(s, cutset): drops every leading character that is in cutset
TrimLeft(s, cutset) ==
    LET keep == { i \in 1..Len(s) : CharAt(s, i) \notin Chars(cutset) }
    IN  IF keep = {} THEN ""
        ELSE SubSeq(s, CHOOSE i \in keep : \A j \in keep : i <= j, Len(s))

\* strings.Join(names, sep)
RECURSIVE Join(_, _)
Join(names, sep) ==
    IF Len(names) = 0 THEN ""
    ELSE IF Len(names) = 1 THEN names[1]
    ELSE names[1] \o sep \o Join(Tail(names), sep)

\* n copies of the character ch
RECURSIVE Repeat(_, _)
Repeat(ch, n) ==
    IF n <= 0 THEN ""
    ELSE IF n % 2 = 1 THEN ch \o Repeat(ch, n - 1)
    ELSE LET half == Repeat(ch, n \div 2) IN half \o half

\* ------------------------------------------------------------------------
\* Durations (package time), in whole seconds
\* ------------------------------------------------------------------------

Digits == << "0", "1", "2", "3", "4", "5", "6", "7", "8", "9" >>

IsDigit(ch) == \E d \in 1..10 : Digits[d] = ch

DigitVal(ch) == (CHOOSE d \in 1..10 : Digits[d] = ch) - 1

\* seconds per unit; the units below one second are outside the model's inputs
UnitSeconds(u) ==
    CASE u = "s" -> 1
      [] u = "m" -> 60
      [] u = "h" -> 3600
      [] OTHER -> 0

\* the end of the run of digits starting at position i (i - 1 when there is none)
RECURSIVE DigitsEnd(_, _)
DigitsEnd(s, i) ==
    IF i <= Len(s) /\ IsDigit(CharAt(s, i)) THEN DigitsEnd(s, i + 1) ELSE i - 1

\* the end of the unit starting at position i: it runs to the next digit or "."
RECURSIVE UnitEnd(_, _)
UnitEnd(s, i) ==
    IF i <= Len(s) /\ ~IsDigit(CharAt(s, i)) /\ CharAt(s, i) # "."
    THEN UnitEnd(s, i + 1) ELSE i - 1

\* the value of a run of digits
RECURSIVE Atoi(_)
Atoi(s) ==
    IF Len(s) = 0 THEN 0
    ELSE 10 * Atoi(SubSeq(s, 1, Len(s) - 1)) + DigitVal(CharAt(s, Len(s)))

\* the groups <number><unit> of time.ParseDuration from position i on
RECURSIVE ParseGroups(_, _, _)
ParseGroups(s, i, acc) ==
    IF i > Len(s) THEN [ok |-> TRUE, d |-> acc]
    ELSE LET de == DigitsEnd(s, i)
             ue == UnitEnd(s, de + 1)
             unit == SubSeq(s, de + 1, ue)
         IN  IF de < i \/ ue < de + 1 \/ UnitSeconds(unit) = 0
             THEN [ok |-> FALSE, d |-> 0]
             ELSE ParseGroups(s, ue + 1, acc + Atoi(SubSeq(s, i, de)) * UnitSeconds(unit))

\* time.ParseDuration: [-+]?(<digits><unit>)+, or "0"; anything else is an error
ParseDuration(s) ==
    LET neg == HasPrefix(s, "-")
        body == IF HasPrefix(s, "-") \/ HasPrefix(s, "+") THEN SubSeq(s, 2, Len(s)) ELSE s
        r == ParseGroups(body, 1, 0)
    IN  IF body = "0" THEN [ok |-> TRUE, d |-> 0]
        ELSE IF body = "" THEN [ok |-> FALSE, d |-> 0]
        ELSE IF r.ok /\ neg THEN [ok |-> TRUE, d |-> 0 - r.d]
        ELSE r

\* time.Duration.String for whole seconds: 300 is "5m0s", 2 is "2s"
FormatDuration(d) ==
    LET u == IF d < 0 THEN 0 - d ELSE d
        h == u \div 3600
        m == (u % 3600) \div 60
        sec == u % 60
        sign == IF d < 0 THEN "-" ELSE ""
    IN  IF h > 0 THEN sign \o ToString(h) \o "h" \o ToString(m) \o "m" \o ToString(sec) \o "s"
        ELSE IF m > 0 THEN sign \o ToString(m) \o "m" \o ToString(sec) \o "s"
        ELSE sign \o ToString(sec) \o "s"

\* ------------------------------------------------------------------------
\* Connections and their fixed attributes
\* ------------------------------------------------------------------------

Clients == 1..NumClients

\* no client: a nil *Client
None == 0

\* conn.User(), the name a Client starts with (NewClient)
User(c) ==
    CASE c = 1 -> "alice"
      [] c = 2 -> "bob"
      [] c = 3 -> "carol"
      [] OTHER -> "dave"

\* Client.Fingerprint: Conn.Permissions.Extensions["fingerprint"], fixed per connection
Fingerprint(c) == "fp" \o ToString(c)

\* Conn.ClientVersion(): the even connections announce a version of 101 characters
ClientVersion(c) ==
    IF c % 2 = 0 THEN "SSH-2.0-" \o Repeat("v", 93) ELSE "SSH-2.0-OpenSSH_6.6"

VARIABLES
    \* the Server (registry), modelled from the design document
    clients,        \* the registered Clients
    admins,         \* the fingerprints of the operators
    banned,         \* the banned fingerprints
    inbound,        \* per Client: broadcast lines the registry has yet to enqueue
    \* the fields of a Client
    Name,
    silencedUntil,  \* 0 is the zero time.Time
    termWidth,
    termHeight,
    term,           \* the channel c.term wraps; 0 is nil
    Msg,            \* the mailbox: a channel of MSG_BUFFER strings
    \* the transport
    connOpen,       \* the connection has not completed
    nch,            \* session channels accepted so far
    chanOpen,       \* the accepted channels that are open
    \* the tasks of a Client
    hasShell,       \* local of handleChannels
    loop,           \* per accepted channel: the command loop started on it
    watchers,       \* close-watchers waiting in Conn.Wait
    pumps,          \* output pumps ranging over Msg
    \* the clock
    now,
    \* history
    termOut,        \* per Client: the lines written to its terminal, with the writer
    enq,            \* per Client: the lines enqueued into Msg, in order
    offered,        \* per Client: the lines producers have offered to Msg
    adds,           \* per Client: calls of Server.Add
    removes,        \* per Client: calls of Server.Remove
    ev,             \* the last line or request handled and the calls it made
    nlines,         \* lines handled so far
    asked           \* per Client: the channels a "shell" request came on

registry == << clients, admins, banned, inbound >>
fields == << Name, silencedUntil, termWidth, termHeight, term, Msg >>
transport == << connOpen, nch, chanOpen >>
tasks == << hasShell, loop, watchers, pumps >>
history == << termOut, enq, offered, adds, removes, ev, nlines, asked >>
vars == << registry, fields, transport, tasks, now, history >>

Channels == 1..MaxChannels

\* ------------------------------------------------------------------------
\* Client methods
\* ------------------------------------------------------------------------

\* IsSilenced with the expiry instant still inside the window
IsSilencedInclusive(c) == silencedUntil[c] >= now

\* Client.IsSilenced: silencedUntil.After(time.Now())
IsSilenced(c) == silencedUntil[c] > now

\* a Silence that extends a window still running
SilenceExtends(c, d) == IF silencedUntil[c] > now THEN silencedUntil[c] + d ELSE now + d

\* Client.Silence on Client c: the new silencedUntil
Silence(c, d) == now + d

\* Server.IsOp, from the design document: isOperator(session)
IsOp(c) == Fingerprint(c) \in admins

\* Server.Who, from the design document: lookup(name) -> session or none; with
\* several sessions of that name any of them may be returned
Who(name) ==
    IF { t \in clients : Name[t] = name } = {} THEN { None }
    ELSE { t \in clients : Name[t] = name }

\* Server.List(nil), from the design document: the names in registry order
RECURSIVE ListFrom(_)
ListFrom(c) ==
    IF c > NumClients THEN << >>
    ELSE (IF c \in clients THEN << Name[c] >> ELSE << >>) \o ListFrom(c + 1)

\* ------------------------------------------------------------------------
\* The calls one input line makes (handleShell, one turn of its loop)
\* ------------------------------------------------------------------------

\* a call: its operation, the Client it acts on, a string and a number
Call(op, to, msg, arg) == [op |-> op, to |-> to, msg |-> msg, arg |-> arg]

\* c.Msg <- msg
MsgSend(c, msg) == Call("MsgSend", c, msg, 0)

\* Client.Write(msg) on Client t: straight to t's terminal
TermWrite(t, msg) == Call("TermWrite", t, msg, 0)

\* Client.WriteLines
WriteLines(c, lines) == [i \in 1..Len(lines) |-> TermWrite(c, lines[i])]

\* c.Server.Broadcast(msg, except)
Broadcast(msg, except) == Call("Broadcast", except, msg, 0)

\* the gate with the length test off by one
RejectedFromLimit(c, msg) == IsSilenced(c) \/ Len(msg) >= MAX_MSG_LEN

\* the gate of chat and /me lines
Rejected(c, msg) == IsSilenced(c) \/ Len(msg) > MAX_MSG_LEN

\* case "/me"
MeCalls(c, line) ==
    LET trimmed == TrimLeft(line, "/me")
        me == IF trimmed = "" THEN " is at a loss for words." ELSE trimmed
        msg == "** " \o Name[c] \o me
    IN  IF Rejected(c, msg)
        THEN << MsgSend(c, "-> Message rejected.") >>
        ELSE << Broadcast(msg, None) >>

\* case "/nick" announcing the rename to the issuer
NickCallsNoisy(c, parts) ==
    IF Len(parts) = 2
    THEN << Call("Rename", c, parts[2], 0), MsgSend(c, "-> You are now " \o parts[2]) >>
    ELSE << MsgSend(c, "-> Missing $NAME from: /nick $NAME") >>

\* case "/nick"
NickCalls(c, parts) ==
    IF Len(parts) = 2
    THEN << Call("Rename", c, parts[2], 0) >>
    ELSE << MsgSend(c, "-> Missing $NAME from: /nick $NAME") >>

\* case "/whois"; client is what Server.Who returned
WhoisCalls(c, parts, client) ==
    IF Len(parts) = 2
    THEN IF client # None
         THEN LET version == IF Len(ClientVersion(client)) > MAX_VERSION_LEN
                             THEN "Evil Jerk with a superlong string"
                             ELSE ClientVersion(client)
              IN  << MsgSend(c, "-> " \o Name[client] \o " is " \o Fingerprint(client)
                                 \o " via " \o version) >>
         ELSE << MsgSend(c, "-> No such name: " \o parts[2]) >>
    ELSE << MsgSend(c, "-> Missing $NAME from: /whois $NAME") >>

\* case "/list"
ListCalls(c) ==
    LET names == ListFrom(1)
    IN  << MsgSend(c, "-> " \o ToString(Len(names)) \o " connected: " \o Join(names, ", ")) >>

\* case "/ban" without the operator test
BanCallsAnyone(c, parts, client) ==
    IF Len(parts) # 2 THEN << MsgSend(c, "-> Missing $NAME from: /ban $NAME") >>
    ELSE IF client = None THEN << MsgSend(c, "-> No such name: " \o parts[2]) >>
    ELSE << TermWrite(client, "-> Banned by " \o Name[c] \o "."),
            Call("Ban", client, Fingerprint(client), 0),
            Call("ConnClose", client, "", 0),
            Broadcast("* " \o parts[2] \o " was banned by " \o Name[c], None) >>

\* case "/ban" announcing the ban before it closes the connection
BanCallsAnnounceFirst(c, parts, client) ==
    IF ~IsOp(c) THEN << MsgSend(c, "-> You're not an admin.") >>
    ELSE IF Len(parts) # 2 THEN << MsgSend(c, "-> Missing $NAME from: /ban $NAME") >>
    ELSE IF client = None THEN << MsgSend(c, "-> No such name: " \o parts[2]) >>
    ELSE << TermWrite(client, "-> Banned by " \o Name[c] \o "."),
            Call("Ban", client, Fingerprint(client), 0),
            Broadcast("* " \o parts[2] \o " was banned by " \o Name[c], None),
            Call("ConnClose", client, "", 0) >>

\* case "/ban" looking the name up before it counts the arguments
BanCallsLookupFirst(c, parts, client) ==
    IF ~IsOp(c) THEN << MsgSend(c, "-> You're not an admin.") >>
    ELSE IF Len(parts) >= 2 /\ client = None THEN << MsgSend(c, "-> No such name: " \o parts[2]) >>
    ELSE IF Len(parts) # 2 THEN << MsgSend(c, "-> Missing $NAME from: /ban $NAME") >>
    ELSE << TermWrite(client, "-> Banned by " \o Name[c] \o "."),
            Call("Ban", client, Fingerprint(client), 0),
            Call("ConnClose", client, "", 0),
            Broadcast("* " \o parts[2] \o " was banned by " \o Name[c], None) >>

\* case "/ban"
BanCalls(c, parts, client) ==
    IF ~IsOp(c) THEN << MsgSend(c, "-> You're not an admin.") >>
    ELSE IF Len(parts) # 2 THEN << MsgSend(c, "-> Missing $NAME from: /ban $NAME") >>
    ELSE IF client = None THEN << MsgSend(c, "-> No such name: " \o parts[2]) >>
    ELSE << TermWrite(client, "-> Banned by " \o Name[c] \o "."),
            Call("Ban", client, Fingerprint(client), 0),
            Call("ConnClose", client, "", 0),
            Broadcast("* " \o parts[2] \o " was banned by " \o Name[c], None) >>

\* case "/op" hanging up on an operator who names nobody
OpCallsFatal(c, parts, client) ==
    IF ~IsOp(c) THEN << MsgSend(c, "-> You're not an admin.") >>
    ELSE IF Len(parts) # 2 THEN << MsgSend(c, "-> Missing $NAME from: /op $NAME") >>
    ELSE IF client = None THEN << MsgSend(c, "-> No such name: " \o parts[2]),
                                  Call("ChannelClose", c, "", 0) >>
    ELSE << TermWrite(client, "-> Made op by " \o Name[c] \o "."),
            Call("Op", client, Fingerprint(client), 0) >>

\* case "/op"
OpCalls(c, parts, client) ==
    IF ~IsOp(c) THEN << MsgSend(c, "-> You're not an admin.") >>
    ELSE IF Len(parts) # 2 THEN << MsgSend(c, "-> Missing $NAME from: /op $NAME") >>
    ELSE IF client = None THEN << MsgSend(c, "-> No such name: " \o parts[2]) >>
    ELSE << TermWrite(client, "-> Made op by " \o Name[c] \o "."),
            Call("Op", client, Fingerprint(client), 0) >>

\* the duration of /silence taking whatever the parse returned
SilenceDurationUnchecked(parts) ==
    IF Len(parts) >= 3
    THEN ParseDuration(parts[3]).d
    ELSE DEFAULT_SILENCE

\* the duration /silence applies: the default unless a third part parses
SilenceDuration(parts) ==
    IF Len(parts) >= 3 /\ ParseDuration(parts[3]).ok
    THEN ParseDuration(parts[3]).d
    ELSE DEFAULT_SILENCE

\* case "/silence"
SilenceCalls(c, parts, client) ==
    IF ~IsOp(c) THEN << MsgSend(c, "-> You're not an admin.") >>
    ELSE IF Len(parts) < 2 THEN << MsgSend(c, "-> Missing $NAME from: /silence $NAME") >>
    ELSE IF client = None THEN << MsgSend(c, "-> No such name: " \o parts[2]) >>
    ELSE << Call("Silence", client, "", SilenceDuration(parts)),
            TermWrite(client, "-> Silenced for " \o FormatDuration(SilenceDuration(parts))
                              \o " by " \o Name[c] \o ".") >>

\* a chat line given up when a mailbox it would go to is full
ChatCallsUnlessFull(c, line) ==
    LET msg == Name[c] \o ": " \o line
    IN  IF Rejected(c, msg)
        THEN << MsgSend(c, "-> Message rejected.") >>
        ELSE IF \E t \in clients \ { c } : Len(Msg[t]) >= MSG_BUFFER
        THEN << >>
        ELSE << Broadcast(msg, c) >>

\* a line that is no command
ChatCalls(c, line) ==
    LET msg == Name[c] \o ": " \o line
    IN  IF Rejected(c, msg)
        THEN << MsgSend(c, "-> Message rejected.") >>
        ELSE << Broadcast(msg, c) >>

\* one turn of the loop of handleShell for the line read and its parts; client
\* is the result of Server.Who(parts[1]) where the line's case looks a name up
Turn(c, line, parts, client) ==
    LET isCmd == HasPrefix(parts[1], "/")
    IN  IF isCmd
        THEN CASE parts[1] = "/exit" -> << Call("ChannelClose", c, "", 0) >>
               [] parts[1] = "/help" -> WriteLines(c, Split(HELP_TEXT, "\n"))
               [] parts[1] = "/about" -> WriteLines(c, Split(ABOUT_TEXT, "\n"))
               [] parts[1] = "/me" -> MeCalls(c, line)
               [] parts[1] = "/nick" -> NickCalls(c, parts)
               [] parts[1] = "/whois" -> WhoisCalls(c, parts, client)
               [] parts[1] = "/list" -> ListCalls(c)
               [] parts[1] = "/ban" -> BanCalls(c, parts, client)
               [] parts[1] = "/op" -> OpCalls(c, parts, client)
               [] parts[1] = "/silence" -> SilenceCalls(c, parts, client)
               [] OTHER -> << MsgSend(c, "-> Invalid command: " \o line) >>
        ELSE ChatCalls(c, line)

\* ------------------------------------------------------------------------
\* The state after NewClient, before any channel is accepted
\* ------------------------------------------------------------------------

\* no command loop on a channel
NoLoop == [pc |-> "none", rt |-> 0, pend |-> ""]

\* nothing handled yet
NoEvent ==
    [kind |-> "none", c |-> 0, k |-> 0, line |-> "", calls |-> << >>,
     at |-> 0, until |-> 0, name |-> "", wasOp |-> FALSE,
     payload |-> << >>, want |-> FALSE, failed |-> FALSE]

Init ==
    /\ clients = {}
    /\ admins = { Fingerprint(1) }
    /\ banned = {}
    /\ inbound = [c \in Clients |-> << >>]
    /\ Name = [c \in Clients |-> User(c)]
    /\ silencedUntil = [c \in Clients |-> 0]
    /\ termWidth = [c \in Clients |-> 0]
    /\ termHeight = [c \in Clients |-> 0]
    /\ term = [c \in Clients |-> 0]
    /\ Msg = [c \in Clients |-> << >>]
    /\ connOpen = [c \in Clients |-> TRUE]
    /\ nch = [c \in Clients |-> 0]
    /\ chanOpen = [c \in Clients |-> {}]
    /\ hasShell = [c \in Clients |-> FALSE]
    /\ loop = [c \in Clients |-> [k \in Channels |-> NoLoop]]
    /\ watchers = [c \in Clients |-> 0]
    /\ pumps = [c \in Clients |-> 0]
    /\ now = 1
    /\ termOut = [c \in Clients |-> << >>]
    /\ enq = [c \in Clients |-> << >>]
    /\ offered = [c \in Clients |-> << >>]
    /\ adds = [c \in Clients |-> 0]
    /\ removes = [c \in Clients |-> 0]
    /\ ev = NoEvent
    /\ nlines = 0
    /\ asked = [c \in Clients |-> {}]

\* ------------------------------------------------------------------------
\* The effects of the calls
\* ------------------------------------------------------------------------

IsMsgSend(x) == x.op = "MsgSend"
IsBroadcast(x) == x.op = "Broadcast"

\* the calls of one operation among calls
CallsOf(calls, op) == { calls[i] : i \in { j \in 1..Len(calls) : calls[j].op = op } }

\* the mailboxes: mb the queued lines, inb the lines waiting for room, en the
\* lines ever queued
Boxes == [mb |-> Msg, inb |-> inbound, en |-> enq]

\* Server.Broadcast(msg, except), from the design document: the line goes to the
\* mailbox of every registered Client but except; a full mailbox makes that
\* delivery wait for room and holds up no other mailbox
BroadcastTo(b, msg, except) ==
    LET to == clients \ { except }
        room(t) == b.inb[t] = << >> /\ Len(b.mb[t]) < MSG_BUFFER
    IN  [mb  |-> [t \in Clients |-> IF t \in to /\ room(t) THEN Append(b.mb[t], msg) ELSE b.mb[t]],
         inb |-> [t \in Clients |-> IF t \in to /\ ~room(t) THEN Append(b.inb[t], msg) ELSE b.inb[t]],
         en  |-> [t \in Clients |-> IF t \in to /\ room(t) THEN Append(b.en[t], msg) ELSE b.en[t]]]

\* the Broadcast calls among calls, applied in order
RECURSIVE BroadcastAll(_, _)
BroadcastAll(b, calls) ==
    IF calls = << >> THEN b
    ELSE BroadcastAll(BroadcastTo(b, Head(calls).msg, Head(calls).to), Tail(calls))

\* c.Msg <- msg with room in the mailbox
SendTo(b, c, msg) ==
    [mb  |-> [b.mb EXCEPT ![c] = Append(@, msg)],
     inb |-> b.inb,
     en  |-> [b.en EXCEPT ![c] = Append(@, msg)]]

\* the lines the calls offer to the mailbox of Client t, in order
Offers(calls, t) ==
    LET mine(x) == \/ x.op = "MsgSend" /\ x.to = t
                   \/ x.op = "Broadcast" /\ t \in clients /\ x.to # t
        os == SelectSeq(calls, mine)
    IN  [i \in 1..Len(os) |-> os[i].msg]

\* the terminal lines the calls write on Client t, each marked as written by
\* the caller itself
DirectWrites(calls, t) ==
    LET mine(x) == x.op = "TermWrite" /\ x.to = t
        ws == SelectSeq(calls, mine)
    IN  [i \in 1..Len(ws) |-> [line |-> ws[i].msg, via |-> "direct"]]

\* ------------------------------------------------------------------------
\* handleShell
\* ------------------------------------------------------------------------

\* handleShell beginning without its close-watcher
StartShellNoWatcher(c, k) ==
    /\ loop[c][k].pc = "start"
    /\ clients' = clients \cup { c }
    /\ adds' = [adds EXCEPT ![c] = @ + 1]
    /\ pumps' = [pumps EXCEPT ![c] = @ + 1]
    /\ loop' = [loop EXCEPT ![c][k].pc = "top"]
    /\ UNCHANGED << admins, banned, inbound, fields, transport, hasShell, watchers, now,
                    termOut, enq, offered, removes, ev, nlines, asked >>

\* go c.handleShell(channel) begins: Server.Add, the close-watcher and the
\* output pump are started (client.go:94-108)
StartShell(c, k) ==
    /\ loop[c][k].pc = "start"
    /\ clients' = clients \cup { c }
    /\ adds' = [adds EXCEPT ![c] = @ + 1]
    /\ watchers' = [watchers EXCEPT ![c] = @ + 1]
    /\ pumps' = [pumps EXCEPT ![c] = @ + 1]
    /\ loop' = [loop EXCEPT ![c][k].pc = "top"]
    /\ UNCHANGED << admins, banned, inbound, fields, transport, hasShell, now,
                    termOut, enq, offered, removes, ev, nlines, asked >>

\* the terminals a read of c.term by the loop started on channel k may see:
\* handleChannels assigns c.term (client.go:250) with no synchronisation with
\* the loop's read (client.go:111), so the read sees the terminal the loop was
\* started with or any made since
TermReads(c, k) == { r \in Channels : k <= r /\ r <= term[c] }

\* the loop calls c.term.ReadLine() (client.go:111): it reads on the terminal
\* its read of c.term gave
BeginRead(c, k) ==
    /\ loop[c][k].pc = "top"
    /\ \E r \in TermReads(c, k) :
          loop' = [loop EXCEPT ![c][k].pc = "read", ![c][k].rt = r]
    /\ UNCHANGED << registry, fields, transport, hasShell, watchers, pumps, now, history >>

\* the state after the calls of one turn of the loop of Client c on channel k
Perform(c, k, line, calls) ==
    LET sends == SelectSeq(calls, IsMsgSend)
        room == Len(Msg[c]) < MSG_BUFFER
        b0 == IF sends # << >> /\ room THEN SendTo(Boxes, c, sends[1].msg) ELSE Boxes
        b1 == BroadcastAll(b0, SelectSeq(calls, IsBroadcast))
        closed == { x.to : x \in CallsOf(calls, "ConnClose") }
    IN  /\ Msg' = b1.mb
        /\ inbound' = b1.inb
        /\ enq' = b1.en
        /\ loop' = [loop EXCEPT ![c][k] =
                        IF sends # << >> /\ ~room
                        THEN [pc |-> "blocked", rt |-> 0, pend |-> sends[1].msg]
                        ELSE [pc |-> "top", rt |-> 0, pend |-> ""]]
        /\ Name' = [t \in Clients |->
                        IF \E x \in CallsOf(calls, "Rename") : x.to = t
                        THEN (CHOOSE x \in CallsOf(calls, "Rename") : x.to = t).msg
                        ELSE Name[t]]
        /\ silencedUntil' = [t \in Clients |->
                        IF \E x \in CallsOf(calls, "Silence") : x.to = t
                        THEN Silence(t, (CHOOSE x \in CallsOf(calls, "Silence") : x.to = t).arg)
                        ELSE silencedUntil[t]]
        /\ admins' = admins \cup { x.msg : x \in CallsOf(calls, "Op") }
        /\ banned' = banned \cup { x.msg : x \in CallsOf(calls, "Ban") }
        /\ connOpen' = [t \in Clients |-> connOpen[t] /\ t \notin closed]
        /\ chanOpen' = [t \in Clients |->
                        IF t \in closed THEN {}
                        ELSE IF t = c /\ CallsOf(calls, "ChannelClose") # {}
                        THEN chanOpen[t] \ { k }
                        ELSE chanOpen[t]]
        /\ termOut' = [t \in Clients |-> termOut[t] \o DirectWrites(calls, t)]
        /\ offered' = [t \in Clients |-> offered[t] \o Offers(calls, t)]
        /\ ev' = [kind |-> "line", c |-> c, k |-> k, line |-> line, calls |-> calls,
                  at |-> now, until |-> silencedUntil[c], name |-> Name[c],
                  wasOp |-> Fingerprint(c) \in admins,
                  payload |-> << >>, want |-> FALSE, failed |-> FALSE]
        /\ nlines' = nlines + 1
        /\ UNCHANGED << clients, termWidth, termHeight, term, nch, hasShell,
                        watchers, pumps, now, adds, removes, asked >>

\* the loop on channel k of Client c waits in ReadLine on an open channel
Reading(c, k) == loop[c][k].pc = "read" /\ loop[c][k].rt \in chanOpen[c]

\* ReadLine returns a line and the loop handles it (client.go:111-228)
HandleLine(c, k, line) ==
    /\ Reading(c, k)
    /\ \E parts \in { SplitN(line, " ", 3) } :
          \E client \in Who(IF Len(parts) >= 2 THEN parts[2] ELSE "") :
             \E calls \in { Turn(c, line, parts, client) } : Perform(c, k, line, calls)

\* a suspended send that gives its line up
ResumeSendDrop(c, k) ==
    /\ loop[c][k].pc = "blocked"
    /\ Len(Msg[c]) < MSG_BUFFER
    /\ loop' = [loop EXCEPT ![c][k] = [pc |-> "top", rt |-> 0, pend |-> ""]]
    /\ UNCHANGED << registry, fields, transport, hasShell, watchers, pumps, now, history >>

\* a command loop suspended in c.Msg <- msg goes on once the mailbox has room
ResumeSend(c, k) ==
    /\ loop[c][k].pc = "blocked"
    /\ Len(Msg[c]) < MSG_BUFFER
    /\ Msg' = [Msg EXCEPT ![c] = Append(@, loop[c][k].pend)]
    /\ enq' = [enq EXCEPT ![c] = Append(@, loop[c][k].pend)]
    /\ loop' = [loop EXCEPT ![c][k] = [pc |-> "top", rt |-> 0, pend |-> ""]]
    /\ UNCHANGED << registry, Name, silencedUntil, termWidth, termHeight, term,
                    transport, hasShell, watchers, pumps, now,
                    termOut, offered, adds, removes, ev, nlines, asked >>

\* ReadLine fails: the channel it reads is closed; the loop ends and the
\* deferred channel.Close() runs (client.go:94, 112-114)
ReadFail(c, k) ==
    /\ loop[c][k].pc = "read"
    /\ loop[c][k].rt \notin chanOpen[c]
    /\ loop' = [loop EXCEPT ![c][k] = [pc |-> "done", rt |-> 0, pend |-> ""]]
    /\ chanOpen' = [chanOpen EXCEPT ![c] = @ \ { k }]
    /\ UNCHANGED << registry, fields, connOpen, nch, hasShell, watchers, pumps, now, history >>

\* the close-watcher: Conn.Wait() has returned, Server.Remove (client.go:98-102)
Watcher(c) ==
    /\ watchers[c] > 0
    /\ ~connOpen[c]
    /\ watchers' = [watchers EXCEPT ![c] = @ - 1]
    /\ clients' = clients \ { c }
    /\ removes' = [removes EXCEPT ![c] = @ + 1]
    /\ UNCHANGED << admins, banned, inbound, fields, transport, hasShell, loop, pumps, now,
                    termOut, enq, offered, adds, ev, nlines, asked >>

\* a pump that takes the newest line of the mailbox
PumpNewest(c) ==
    /\ pumps[c] > 0
    /\ Msg[c] # << >>
    /\ Msg' = [Msg EXCEPT ![c] = SubSeq(@, 1, Len(@) - 1)]
    /\ termOut' = [termOut EXCEPT ![c] = Append(@, [line |-> Msg[c][Len(Msg[c])], via |-> "pump"])]
    /\ UNCHANGED << registry, Name, silencedUntil, termWidth, termHeight, term,
                    transport, tasks, now, enq, offered, adds, removes, ev, nlines, asked >>

\* a pump that returns once the connection is gone
PumpStopsOnClose(c) ==
    /\ connOpen[c]
    /\ pumps[c] > 0
    /\ Msg[c] # << >>
    /\ Msg' = [Msg EXCEPT ![c] = Tail(@)]
    /\ termOut' = [termOut EXCEPT ![c] = Append(@, [line |-> Head(Msg[c]), via |-> "pump"])]
    /\ UNCHANGED << registry, Name, silencedUntil, termWidth, termHeight, term,
                    transport, tasks, now, enq, offered, adds, removes, ev, nlines, asked >>

\* the output pump: one line from the mailbox to the terminal (client.go:104-108)
Pump(c) ==
    /\ pumps[c] > 0
    /\ Msg[c] # << >>
    /\ Msg' = [Msg EXCEPT ![c] = Tail(@)]
    /\ termOut' = [termOut EXCEPT ![c] = Append(@, [line |-> Head(Msg[c]), via |-> "pump"])]
    /\ UNCHANGED << registry, Name, silencedUntil, termWidth, termHeight, term,
                    transport, tasks, now, enq, offered, adds, removes, ev, nlines, asked >>

\* a broadcast line that waited for room enters the mailbox
Deliver(t) ==
    /\ inbound[t] # << >>
    /\ Len(Msg[t]) < MSG_BUFFER
    /\ Msg' = [Msg EXCEPT ![t] = Append(@, Head(inbound[t]))]
    /\ enq' = [enq EXCEPT ![t] = Append(@, Head(inbound[t]))]
    /\ inbound' = [inbound EXCEPT ![t] = Tail(@)]
    /\ UNCHANGED << clients, admins, banned, Name, silencedUntil, termWidth, termHeight, term,
                    transport, tasks, now, termOut, offered, adds, removes, ev, nlines, asked >>

\* ------------------------------------------------------------------------
\* handleChannels
\* ------------------------------------------------------------------------

\* the channel whose requests handleChannels is ranging over; 0 while it waits
\* for the next channel
Serving(c) == IF nch[c] > 0 /\ nch[c] \in chanOpen[c] THEN nch[c] ELSE 0

\* an accept that starts each channel with a guard of its own
AcceptChannelFreshGuard(c) ==
    /\ connOpen[c]
    /\ Serving(c) = 0
    /\ nch' = [nch EXCEPT ![c] = @ + 1]
    /\ chanOpen' = [chanOpen EXCEPT ![c] = @ \cup { nch[c] + 1 }]
    /\ term' = [term EXCEPT ![c] = nch[c] + 1]
    /\ hasShell' = [hasShell EXCEPT ![c] = FALSE]
    /\ UNCHANGED << registry, Name, silencedUntil, termWidth, termHeight, Msg,
                    connOpen, loop, watchers, pumps, now, history >>

\* a session channel is accepted and a terminal is made on it
\* (client.go:237-250); a channel of another type is rejected and an Accept
\* that fails is skipped, neither changes the Client
AcceptChannel(c) ==
    /\ connOpen[c]
    /\ Serving(c) = 0
    /\ nch' = [nch EXCEPT ![c] = @ + 1]
    /\ chanOpen' = [chanOpen EXCEPT ![c] = @ \cup { nch[c] + 1 }]
    /\ term' = [term EXCEPT ![c] = nch[c] + 1]
    /\ UNCHANGED << registry, Name, silencedUntil, termWidth, termHeight, Msg,
                    connOpen, tasks, now, history >>

\* parsePtyRequest, from the design document: the payload is (termName, width,
\* height, pixelWidth, pixelHeight, modes); it parses when width and height are there
ParsePtyRequest(payload) ==
    IF Len(payload) >= 3
    THEN [ok |-> TRUE, width |-> payload[2], height |-> payload[3]]
    ELSE [ok |-> FALSE, width |-> 0, height |-> 0]

\* parseWinchRequest, from the design document: the payload decodes as that of
\* pty-req does
ParseWinchRequest(payload) ==
    IF Len(payload) >= 3
    THEN [ok |-> TRUE, width |-> payload[2], height |-> payload[3]]
    ELSE [ok |-> FALSE, width |-> 0, height |-> 0]

\* a Resize that stores the geometry before it asks the terminal
ResizeStoresFirst(c, width, height, failed) ==
    [ok |-> ~failed, width |-> width, height |-> height]

\* Client.Resize: the stored geometry afterwards and whether it returned nil;
\* failed says term.SetSize returned an error
Resize(c, width, height, failed) ==
    IF failed
    THEN [ok |-> FALSE, width |-> termWidth[c], height |-> termHeight[c]]
    ELSE [ok |-> TRUE, width |-> width, height |-> height]

\* the guard of the "shell" case without its flag
ShellGuardNoFlag(c) == term[c] # 0

\* the "shell" case starts a command loop
ShellGuard(c) == term[c] # 0 /\ ~hasShell[c]

\* one request on the channel being served (client.go:251-279)
HandleRequest(c, type, payload, wantReply, failed) ==
    LET k == Serving(c)
        parsed == CASE type = "pty-req" -> ParsePtyRequest(payload)
                    [] type = "window-change" -> ParseWinchRequest(payload)
                    [] OTHER -> [ok |-> FALSE, width |-> 0, height |-> 0]
        start == type = "shell" /\ ShellGuard(c)
        sized == Resize(c, parsed.width, parsed.height, failed)
        ok == IF type = "shell" THEN start ELSE parsed.ok /\ sized.ok
    IN  /\ connOpen[c]
        /\ k # 0
        /\ hasShell' = [hasShell EXCEPT ![c] = @ \/ start]
        /\ loop' = [loop EXCEPT ![c][k].pc = IF start THEN "start" ELSE @]
        /\ termWidth' = [termWidth EXCEPT ![c] = IF parsed.ok THEN sized.width ELSE @]
        /\ termHeight' = [termHeight EXCEPT ![c] = IF parsed.ok THEN sized.height ELSE @]
        /\ ev' = [kind |-> "req", c |-> c, k |-> k, line |-> type,
                  calls |-> (IF start THEN << Call("GoShell", c, "", k) >> ELSE << >>)
                         \o (IF parsed.ok
                             THEN << Call("SetSize", c, IF failed THEN "error" ELSE "",
                                          << parsed.width, parsed.height >>) >>
                             ELSE << >>)
                         \o (IF wantReply THEN << Call("Reply", c, "", ok) >> ELSE << >>),
                  at |-> 0, until |-> 0, name |-> "", wasOp |-> FALSE,
                  payload |-> payload, want |-> wantReply, failed |-> parsed.ok /\ failed]
        /\ asked' = [asked EXCEPT ![c] = IF type = "shell" THEN @ \cup { k } ELSE @]
        /\ UNCHANGED << registry, Name, silencedUntil, term, Msg, transport,
                        watchers, pumps, now, termOut, enq, offered, adds, removes, nlines >>

\* ------------------------------------------------------------------------
\* The transport and the clock
\* ------------------------------------------------------------------------

\* the peer closes a channel
PeerClose(c, k) ==
    /\ k \in chanOpen[c]
    /\ chanOpen' = [chanOpen EXCEPT ![c] = @ \ { k }]
    /\ UNCHANGED << registry, fields, connOpen, nch, tasks, now, history >>

\* the connection ends: the peer leaves or the network fails
ConnDrop(c) ==
    /\ connOpen[c]
    /\ connOpen' = [connOpen EXCEPT ![c] = FALSE]
    /\ chanOpen' = [chanOpen EXCEPT ![c] = {}]
    /\ UNCHANGED << registry, fields, nch, tasks, now, history >>

\* time passes
Tick ==
    /\ now < MaxTime
    /\ now' = now + 1
    /\ UNCHANGED << registry, fields, transport, tasks, history >>

\* ------------------------------------------------------------------------
\* Inputs
\* ------------------------------------------------------------------------

RequestTypes == { "shell", "pty-req", "window-change", "env" }

\* payloads: two sizes that parse, and truncated ones
Payloads(type) ==
    CASE type = "pty-req" -> { << "xterm", 80, 24, 640, 480, "" >>, << "xterm", 80 >> }
      [] type = "window-change" -> { << "xterm", 120, 40, 960, 800, "" >>, << "xterm", 120 >> }
      [] OTHER -> { << >> }

\* the lines of the negotiation and lifecycle runs
LifeLines == { "/exit", "/ban bob" }

\* a chat line of Client c whose message "name: line" has MAX_MSG_LEN + over characters
LongChat(c, over) == Repeat("x", MAX_MSG_LEN + over - Len(Name[c]) - 2)

\* a /me line of Client c whose message "** name text" has MAX_MSG_LEN + over characters
LongMe(c, over) == "/me " \o Repeat("x", MAX_MSG_LEN + over - Len(Name[c]) - 4)

\* the lines of the chat runs: chat and /me lines, short and at the length
\* limit, and a /silence line that closes the gate
ChatLines(c) ==
    { "hi", "", "/me", "/me waves", LongChat(c, 0), LongChat(c, 1), LongMe(c, 0), LongMe(c, 1),
      "/silence bob" }

\* the lines of the silence runs: /silence with a duration that parses, with
\* none, and with one that does not parse, and the lines the gate decides on
SilenceLines ==
    { "hi", "/me waves",
      "/silence bob 1s", "/silence bob 2s", "/silence alice 1s", "/silence bob -1s",
      "/silence bob", "/silence bob abc", "/silence bob 10", "/silence bob ", "/silence bob 2s now" }

\* the lines of the command runs
CmdLines ==
    { "/ban bob", "/ban", "/ban bob now", "/ban nobody", "/ban nobody now",
      "/op bob", "/op", "/op bob now", "/op nobody",
      "/silence alice", "/silence", "/silence alice 2s", "/silence nobody 2s",
      "/nick carol", "/nick", "/nick carol king", "/nick ",
      "/whois bob", "/whois alice", "/whois nobody", "/whois", "/list", "/help", "/about",
      "/bogus", "/exit", "hi" }

\* the lines of the mailbox runs: the first Client draws notices into its own
\* mailbox, the others broadcast into it
MailLines(c) == IF c = 1 THEN { "/bogus" } ELSE { "hi" }

\* ------------------------------------------------------------------------
\* Specifications
\* ------------------------------------------------------------------------

\* the connections that open channels; a further connection has been accepted
\* and has opened none yet
Sessions == { c \in Clients : c <= 2 }

\* the session channels accepted so far, over the connections 1..c
RECURSIVE Accepted(_)
Accepted(c) == IF c = 0 THEN 0 ELSE nch[c] + Accepted(c - 1)

\* Negotiation and lifecycle, from NewClient on: channels, "shell" requests,
\* command loops, close-watchers, and connections that end by /exit, by a ban
\* or by the network.
Next ==
    \/ /\ Accepted(NumClients) < MaxChannels
       /\ \E c \in Sessions : AcceptChannel(c)
    \/ \E c \in Sessions, wantReply \in BOOLEAN : HandleRequest(c, "shell", << >>, wantReply, FALSE)
    \/ /\ nlines < MaxLines
       /\ \E c \in Sessions, k \in Channels :
             Reading(c, k) /\ \E line \in LifeLines : HandleLine(c, k, line)
    \/ \E c \in Sessions, k \in Channels : StartShell(c, k)
    \/ \E c \in Sessions, k \in Channels : BeginRead(c, k)
    \/ \E c \in Sessions, k \in Channels : ReadFail(c, k)
    \/ \E c \in Sessions, k \in Channels : PeerClose(c, k)
    \/ \E c \in Sessions : ConnDrop(c)
    \/ \E c \in Sessions : Watcher(c)

Spec == Init /\ [][Next]_vars

\* Requests on accepted channels, from NewClient on: every request type, with
\* payloads that parse and payloads that do not, resizes that fail, replies
\* wanted and not.
NextPty ==
    \/ /\ Accepted(NumClients) < MaxChannels
       /\ \E c \in Sessions : AcceptChannel(c)
    \/ \E c \in Sessions, type \in RequestTypes : \E payload \in Payloads(type) :
          \E wantReply \in BOOLEAN, failed \in BOOLEAN :
             HandleRequest(c, type, payload, wantReply, failed)
    \/ \E c \in Sessions, k \in Channels : PeerClose(c, k)

\* the Go scheduler runs a close-watcher whose Conn.Wait has returned
SpecLife == Spec /\ \A c \in Clients : WF_vars(Watcher(c))

SpecPty == Init /\ [][NextPty]_vars

\* The state Spec reaches once the connections of S have each had one channel
\* accepted and one "shell" request honoured (StartShell done).
Running(S) ==
    /\ clients = S
    /\ admins = { Fingerprint(1) }
    /\ banned = {}
    /\ inbound = [c \in Clients |-> << >>]
    /\ Name = [c \in Clients |-> User(c)]
    /\ silencedUntil = [c \in Clients |-> 0]
    /\ termWidth = [c \in Clients |-> 0]
    /\ termHeight = [c \in Clients |-> 0]
    /\ term = [c \in Clients |-> IF c \in S THEN 1 ELSE 0]
    /\ Msg = [c \in Clients |-> << >>]
    /\ connOpen = [c \in Clients |-> TRUE]
    /\ nch = [c \in Clients |-> IF c \in S THEN 1 ELSE 0]
    /\ chanOpen = [c \in Clients |-> IF c \in S THEN { 1 } ELSE {}]
    /\ hasShell = [c \in Clients |-> c \in S]
    /\ loop = [c \in Clients |-> [k \in Channels |->
                    IF c \in S /\ k = 1 THEN [pc |-> "top", rt |-> 0, pend |-> ""]
                    ELSE NoLoop]]
    /\ watchers = [c \in Clients |-> IF c \in S THEN 1 ELSE 0]
    /\ pumps = [c \in Clients |-> IF c \in S THEN 1 ELSE 0]
    /\ now = 1
    /\ termOut = [c \in Clients |-> << >>]
    /\ enq = [c \in Clients |-> << >>]
    /\ offered = [c \in Clients |-> << >>]
    /\ adds = [c \in Clients |-> IF c \in S THEN 1 ELSE 0]
    /\ removes = [c \in Clients |-> 0]
    /\ ev = NoEvent
    /\ nlines = 0
    /\ asked = [c \in Clients |-> IF c \in S THEN { 1 } ELSE {}]

\* the first two connections run a shell
InitRunning == Running(Sessions)

\* the first three connections run a shell
Trio == { c \in Clients : c <= 3 }
InitThree == Running(Trio)

\* Chat: running sessions send chat and /me lines, short and long, while an
\* operator silences one of them.
NextChat ==
    \/ /\ nlines < MaxChatLines
       /\ \E c \in Clients, k \in Channels :
             Reading(c, k) /\ \E line \in ChatLines(c) : HandleLine(c, k, line)
    \/ \E c \in Clients, k \in Channels : BeginRead(c, k)

SpecChat == InitRunning /\ [][NextChat]_vars

\* Silence: an operator silences running sessions for various durations while
\* they chat and time passes.
NextSilence ==
    \/ /\ nlines < MaxSilenceLines
       /\ \E c \in Clients, k \in Channels :
             Reading(c, k) /\ \E line \in SilenceLines : HandleLine(c, k, line)
    \/ \E c \in Clients, k \in Channels : BeginRead(c, k)
    \/ Tick

SpecSilence == InitRunning /\ [][NextSilence]_vars

\* Commands: running sessions issue the commands, with and without their
\* arguments, as operator and not.
NextCmd ==
    \/ /\ nlines < MaxCmdLines
       /\ \E c \in Clients, k \in Channels :
             Reading(c, k) /\ \E line \in CmdLines : HandleLine(c, k, line)
    \/ \E c \in Clients, k \in Channels : BeginRead(c, k)
    \/ \E c \in Clients, k \in Channels : ReadFail(c, k)
    \/ \E c \in Clients : Watcher(c)

SpecCmd == InitRunning /\ [][NextCmd]_vars

\* the lines the other sessions have broadcast towards the first one's mailbox
BroadcastsIn ==
    LET notOwn(x) == x # "-> Invalid command: /bogus"
    IN  Len(SelectSeq(offered[1], notOwn))

\* Mailboxes: producers fill a mailbox faster than its pump drains it.
NextMail ==
    \/ /\ nlines < MaxMailLines
       /\ \E c \in Clients, k \in Channels :
             /\ Reading(c, k)
             /\ c = 1 \/ BroadcastsIn < MaxBroadcasts
             /\ \E line \in MailLines(c) : HandleLine(c, k, line)
    \/ \E c \in Clients, k \in Channels : BeginRead(c, k)
    \/ \E c \in Clients, k \in Channels : ResumeSend(c, k)
    \/ \E c \in Clients : Deliver(c)
    \/ \E c \in Clients : Pump(c)

SpecMail == InitRunning /\ [][NextMail]_vars

\* the lines of the /exit runs
ExitLines == { "/exit", "hi" }

\* /exit: running sessions leave by /exit, chat, and have further session
\* channels accepted on their connections; "shell" requests arrive on those.
NextExit ==
    \/ /\ nlines < MaxExitLines
       /\ \E c \in Clients, k \in Channels :
             Reading(c, k) /\ \E line \in ExitLines : HandleLine(c, k, line)
    \/ \E c \in Clients, k \in Channels : BeginRead(c, k)
    \/ \E c \in Clients, k \in Channels : ReadFail(c, k)
    \/ \E c \in Sessions : nch[c] < MaxChannels /\ AcceptChannel(c)
    \/ \E c \in Sessions : HandleRequest(c, "shell", << >>, TRUE, FALSE)

SpecExit == InitRunning /\ [][NextExit]_vars

\* A stalled reader: three sessions run; the second chats; the pump of the
\* first is held in its terminal write by a peer that reads nothing, the
\* others pump.
NextStall ==
    \/ /\ nlines < MaxStallLines
       /\ \E k \in Channels : Reading(2, k) /\ HandleLine(2, k, "hi")
    \/ \E c \in Clients, k \in Channels : BeginRead(c, k)
    \/ \E c \in Clients : Deliver(c)
    \/ \E c \in Clients \ { 1 } : Pump(c)

SpecStall == InitThree /\ [][NextStall]_vars

\* Draining: the first session fills its own mailbox with notices, the second
\* chats into it once it is full; the first session's connection may end at
\* any moment, its loop then ends and its close-watcher removes it.
NextDrain ==
    \/ /\ nlines < MaxDrainLines
       /\ \E k \in Channels : Reading(1, k) /\ HandleLine(1, k, "/bogus")
    \/ /\ nlines < MaxDrainLines
       /\ Len(Msg[1]) = MSG_BUFFER
       /\ inbound[1] = << >>
       /\ \E k \in Channels : Reading(2, k) /\ HandleLine(2, k, "hi")
    \/ \E c \in Sessions, k \in Channels : BeginRead(c, k)
    \/ \E c \in Sessions, k \in Channels : ResumeSend(c, k)
    \/ \E c \in Sessions, k \in Channels : ReadFail(c, k)
    \/ \E c \in Sessions : Deliver(c)
    \/ \E c \in Sessions : Pump(c)
    \/ ConnDrop(1)
    \/ \E c \in Sessions : Watcher(c)

\* the Go scheduler runs a pump that has a line to take and whose terminal
\* write returns, a send that has room, and a close-watcher whose wait is over
SpecDrain ==
    /\ InitRunning /\ [][NextDrain]_vars
    /\ \A c \in Sessions : WF_vars(Pump(c)) /\ WF_vars(Deliver(c)) /\ WF_vars(Watcher(c))
    /\ \A c \in Sessions, k \in Channels : WF_vars(ResumeSend(c, k))

\* ------------------------------------------------------------------------
\* What the claims speak of
\* ------------------------------------------------------------------------

\* a line that is plain chat: its first character is not the sigil
IsChatLine(line) == Len(line) = 0 \/ SubSeq(line, 1, 1) # "/"

\* a line whose verb is /me
IsMeLine(line) == line = "/me" \/ (Len(line) >= 4 /\ SubSeq(line, 1, 4) = "/me ")

\* the formatted message of a chat or /me line: "name: text" or "** name<text>"
Composed(name, line) ==
    IF IsMeLine(line)
    THEN "** " \o name \o (IF Len(line) > 3 THEN SubSeq(line, 4, Len(line))
                           ELSE " is at a loss for words.")
    ELSE name \o ": " \o line

\* a step that handles an input line
LineStep == nlines' # nlines

\* the rejection notice as a send to Client c
RejectionTo(c) == [op |-> "MsgSend", to |-> c, msg |-> "-> Message rejected.", arg |-> 0]

\* ------------------------------------------------------------------------
\* C1
\* ------------------------------------------------------------------------

\* C1: for every chat line and every /me line handled, if the sender is
\* silenced at that moment or the formatted message is longer than 1000, the
\* turn makes no Broadcast call and exactly one send, of "-> Message rejected.",
\* to the sender's own mailbox, where the line arrives, no other mailbox gets a
\* line, and the loop goes on to its next ReadLine; otherwise the turn makes
\* exactly one call, a Broadcast of the formatted message, and no rejection
\* notice arrives (a message of exactly 1000 characters is broadcast).
C1_ChatGate ==
    [][LineStep /\ (IsChatLine(ev'.line) \/ IsMeLine(ev'.line)) =>
        LET c == ev'.c
            m == Composed(Name[c], ev'.line)
        IN  IF silencedUntil[c] > now \/ Len(m) > 1000
            THEN /\ ev'.calls = << RejectionTo(c) >>
                 /\ Len(Msg[c]) < 10 => /\ enq'[c] = Append(enq[c], "-> Message rejected.")
                                        /\ Msg'[c] = Append(Msg[c], "-> Message rejected.")
                 /\ \A t \in Clients \ { c } : enq'[t] = enq[t] /\ inbound'[t] = inbound[t]
                 /\ loop'[c][ev'.k].pc = IF Len(Msg[c]) < 10 THEN "top" ELSE "blocked"
            ELSE /\ Len(ev'.calls) = 1
                 /\ ev'.calls[1].op = "Broadcast"
                 /\ ev'.calls[1].msg = m
                 /\ enq'[c] \in { enq[c], Append(enq[c], m) }
                 /\ loop'[c][ev'.k].pc = "top"
    ]_vars

\* C1 witness: a silenced sender's short chat or /me line has been rejected and
\* the notice is the last line of its mailbox
C1_Witness ==
    /\ ev.kind = "line"
    /\ IsChatLine(ev.line) \/ IsMeLine(ev.line)
    /\ ev.until > ev.at
    /\ Len(Composed(ev.name, ev.line)) <= 1000
    /\ ev.calls = << RejectionTo(ev.c) >>
    /\ enq[ev.c] # << >>
    /\ enq[ev.c][Len(enq[ev.c])] = "-> Message rejected."

\* reached under SpecChat: a message of exactly 1000 characters is broadcast
C1_AtLimit ==
    /\ ev.kind = "line"
    /\ ev.until <= ev.at
    /\ Len(Composed(ev.name, ev.line)) = 1000
    /\ Len(ev.calls) = 1
    /\ ev.calls[1].op = "Broadcast"

\* reached under SpecChat: a message of 1001 characters of a sender that is
\* not silenced is rejected
C1_OverLimit ==
    /\ ev.kind = "line"
    /\ ev.until <= ev.at
    /\ Len(Composed(ev.name, ev.line)) = 1001
    /\ ev.calls = << RejectionTo(ev.c) >>

\* the line is the verb alone or the verb, a space and more
HasVerb(line, verb) ==
    \/ line = verb
    \/ Len(line) > Len(verb) /\ SubSeq(line, 1, Len(verb) + 1) = verb \o " "

\* a send of msg to the mailbox of Client c
SendOf(c, msg) == [op |-> "MsgSend", to |-> c, msg |-> msg, arg |-> 0]

\* the send of the call arrives in the mailbox of the issuer (when it has room)
\* and no other mailbox gets a line
OnlyTo(c, msg) ==
    /\ Len(Msg[c]) < 10 => enq'[c] = Append(enq[c], msg) /\ Msg'[c] = Append(Msg[c], msg)
    /\ Len(Msg[c]) >= 10 => enq'[c] = enq[c] /\ loop'[c][ev'.k].pend = msg
    /\ \A t \in Clients \ { c } : enq'[t] = enq[t] /\ Msg'[t] = Msg[t]
    /\ inbound' = inbound

\* ------------------------------------------------------------------------
\* C2
\* ------------------------------------------------------------------------

\* C2: every /ban, /op or /silence line, whatever its arguments, handled for an
\* issuer whose fingerprint is not among the operators leaves the banned set,
\* the operators, every silencedUntil, every connection and channel and every
\* terminal as they were, makes no Broadcast call and puts no line in another
\* mailbox; its only call is one send of "-> You're not an admin." to the
\* issuer's own mailbox.
C2_NonOperatorDenied ==
    [][LineStep /\ (HasVerb(ev'.line, "/ban") \/ HasVerb(ev'.line, "/op")
                                              \/ HasVerb(ev'.line, "/silence"))
                /\ Fingerprint(ev'.c) \notin admins =>
        /\ banned' = banned
        /\ admins' = admins
        /\ silencedUntil' = silencedUntil
        /\ connOpen' = connOpen
        /\ chanOpen' = chanOpen
        /\ termOut' = termOut
        /\ ev'.calls = << SendOf(ev'.c, "-> You're not an admin.") >>
        /\ OnlyTo(ev'.c, "-> You're not an admin.")
    ]_vars

\* C2 witness: a session that is no operator has issued /silence with a
\* duration against a registered session; that session is not silenced and
\* the denial is the last line of the issuer's mailbox
C2_Witness ==
    /\ ev.kind = "line"
    /\ ev.line = "/silence alice 2s"
    /\ ~ev.wasOp
    /\ \E t \in clients : Name[t] = "alice" /\ silencedUntil[t] = 0 /\ termOut[t] = << >>
    /\ enq[ev.c] # << >>
    /\ enq[ev.c][Len(enq[ev.c])] = "-> You're not an admin."

\* ------------------------------------------------------------------------
\* C10
\* ------------------------------------------------------------------------

\* what follows "/nick " in the line
NickRest(line) == SubSeq(line, 7, Len(line))

\* C10: every /nick line with exactly one argument (the text after "/nick "
\* holds no further space) makes exactly one call, Server.Rename of the issuer
\* with that argument, and no line enters any mailbox; every /nick line with
\* no argument makes exactly one call, the send of the missing-argument notice
\* to the issuer's own mailbox, and no Rename.
C10_Nick ==
    [][LineStep /\ HasVerb(ev'.line, "/nick") =>
        LET c == ev'.c
        IN  IF ev'.line = "/nick"
            THEN /\ ev'.calls = << SendOf(c, "-> Missing $NAME from: /nick $NAME") >>
                 /\ OnlyTo(c, "-> Missing $NAME from: /nick $NAME")
                 /\ Name' = Name
            ELSE IndexFrom(NickRest(ev'.line), " ", 1) = 0 =>
                 /\ ev'.calls = << [op |-> "Rename", to |-> c, msg |-> NickRest(ev'.line), arg |-> 0] >>
                 /\ enq' = enq
                 /\ inbound' = inbound
                 /\ offered' = offered
    ]_vars

\* C10 witness: "/nick carol" has been handled, by one Rename call with
\* "carol", and the issuer is named carol
C10_Witness ==
    /\ ev.kind = "line"
    /\ ev.line = "/nick carol"
    /\ Len(ev.calls) = 1
    /\ ev.calls[1].op = "Rename"
    /\ ev.calls[1].msg = "carol"
    /\ Name[ev.c] = "carol"

\* reached under SpecCmd: "/nick" alone has drawn the missing-argument notice
C10_Missing ==
    /\ ev.kind = "line"
    /\ ev.line = "/nick"
    /\ ev.calls = << SendOf(ev.c, "-> Missing $NAME from: /nick $NAME") >>
    /\ Name[ev.c] = ev.name

\* ------------------------------------------------------------------------
\* C3
\* ------------------------------------------------------------------------

\* the command loop of Client c has begun on some channel
ShellActive(c) == \E k \in Channels : loop[c][k].pc \notin { "none", "start" }

\* Server.Add and Server.Remove are each called at most once for a Client, the
\* Remove only after the Add and only once the connection has completed, and
\* until then one close-watcher waits for that
CountedOnce ==
    \A c \in Clients :
        /\ adds[c] = (IF ShellActive(c) THEN 1 ELSE 0)
        /\ removes[c] \in { 0, 1 }
        /\ watchers[c] + removes[c] = adds[c]
        /\ removes[c] = 1 => ~connOpen[c]

\* C3: in every state a connection whose shell was activated has had exactly
\* one Server.Add and at most one Server.Remove, none before the connection
\* completed; and whenever such a connection has completed (by a ban's
\* Conn.Close or by the network; /exit closes the channel and the connection
\* ends when the peer leaves), its Server.Remove count becomes, and stays,
\* exactly one.
C3_RegisteredAndRemovedOnce ==
    /\ []CountedOnce
    /\ \A c \in Clients : (adds[c] = 1 /\ ~connOpen[c]) ~> [](removes[c] = 1)

\* C3 witness: a session whose connection a ban closed has been deregistered,
\* once
C3_Witness ==
    /\ ev.kind = "line"
    /\ ev.line = "/ban bob"
    /\ \E x \in CallsOf(ev.calls, "ConnClose") : adds[x.to] = 1 /\ removes[x.to] = 1

\* reached under SpecLife: a connection on which a "shell" request came on each
\* of two channels has been registered once and deregistered once
C3_TwoChannels == \E c \in Clients : asked[c] = { 1, 2 } /\ adds[c] = 1 /\ removes[c] = 1

\* reached under Spec: a session that left by /exit and whose connection then
\* ended has been deregistered once
C3_AfterExit ==
    /\ ev.kind = "line"
    /\ ev.line = "/exit"
    /\ adds[ev.c] = 1
    /\ removes[ev.c] = 1

\* ------------------------------------------------------------------------
\* C6
\* ------------------------------------------------------------------------

\* a step that handles a request (one that repeats the last event and its
\* outcome changes nothing at all)
ReqStep == ev' # ev /\ ev'.kind = "req"

\* the reply of the request of event e, if it wanted one
Answer(e, ok) ==
    IF e.want THEN << [op |-> "Reply", to |-> e.c, msg |-> "", arg |-> ok] >> ELSE << >>

\* the "shell" request of the step starts the command loop on its channel and
\* is answered with success
Honoured ==
    /\ ev'.calls = << [op |-> "GoShell", to |-> ev'.c, msg |-> "", arg |-> ev'.k] >>
                        \o Answer(ev', TRUE)
    /\ loop[ev'.c][ev'.k].pc = "none"
    /\ loop'[ev'.c][ev'.k].pc = "start"
    /\ \A c \in Clients, k \in Channels : << c, k >> # << ev'.c, ev'.k >> => loop'[c][k] = loop[c][k]

\* the "shell" request of the step starts nothing, changes no state and is
\* answered ok=false
Refused ==
    /\ ev'.calls = Answer(ev', FALSE)
    /\ UNCHANGED << registry, fields, transport, tasks, now, termOut, enq, offered, adds, removes >>

\* on no connection is there more than one command loop, registration,
\* close-watcher or output pump
OneOfEach ==
    \A c \in Clients :
        /\ Cardinality({ k \in Channels : loop[c][k].pc # "none" }) <= 1
        /\ adds[c] <= 1
        /\ watchers[c] + removes[c] <= 1
        /\ pumps[c] <= 1

\* C6 as stated, the guard taken per accepted channel: the first "shell"
\* request on a channel is honoured, every later one on that channel refused.
C6_PerChannel ==
    /\ [][ReqStep /\ ev'.line = "shell" =>
            IF ev'.k \notin asked[ev'.c] THEN Honoured ELSE Refused]_vars
    /\ []OneOfEach

\* C6, amended, the guard taken per connection: the first "shell" request on
\* a connection is honoured on the channel it came on, and starts one command
\* loop and with it one registration, one close-watcher and one output pump;
\* every later "shell" request on that connection, on that channel or on one
\* accepted later, is refused: it starts nothing, changes no state and is
\* answered ok=false when a reply is requested.
C6_PerConnection ==
    /\ [][ReqStep /\ ev'.line = "shell" =>
            IF asked[ev'.c] = {} THEN Honoured ELSE Refused]_vars
    /\ [][\A c \in Clients, k \in Channels :
            loop[c][k].pc = "start" /\ loop'[c][k].pc # "start" =>
                /\ adds'[c] = adds[c] + 1
                /\ watchers'[c] = watchers[c] + 1
                /\ pumps'[c] = pumps[c] + 1]_vars
    /\ []OneOfEach

\* C6 witness: on a connection whose shell runs on its first channel, a
\* "shell" request on that channel and one on its second channel have been
\* refused, the last with ok=false
C6_Witness ==
    /\ ev.kind = "req"
    /\ ev.line = "shell"
    /\ ev.k = 2
    /\ asked[ev.c] = { 1, 2 }
    /\ ev.calls = << [op |-> "Reply", to |-> ev.c, msg |-> "", arg |-> FALSE] >>
    /\ loop[ev.c][1].pc # "none"
    /\ loop[ev.c][2].pc = "none"
    /\ adds[ev.c] = 1

\* ------------------------------------------------------------------------
\* C4
\* ------------------------------------------------------------------------

\* the lines the output pump has written on the terminal of Client c, in order
Pumped(c) ==
    LET byPump(w) == w.via = "pump"
        ws == SelectSeq(termOut[c], byPump)
    IN  [i \in 1..Len(ws) |-> ws[i].line]

\* C4: in every state, for every session, the lines its pump has written,
\* followed by the lines still in its mailbox, are exactly the lines enqueued
\* into its mailbox, in the order of their enqueueing: none reordered,
\* duplicated or lost.
C4_PumpKeepsOrder == \A c \in Clients : Pumped(c) \o Msg[c] = enq[c]

\* C4 witness: the mailbox of one session took lines of two producers, its own
\* command loop and another session's broadcast, one between two of the other;
\* the pump has written some and some wait
C4_Witness ==
    \E c \in Clients :
        /\ Len(Pumped(c)) >= 2
        /\ Msg[c] # << >>
        /\ \E i \in 1..(Len(enq[c]) - 2) :
              /\ enq[c][i] = "bob: hi"
              /\ enq[c][i + 1] = "-> Invalid command: /bogus"
              /\ enq[c][i + 2] = "bob: hi"
              /\ i + 1 <= Len(Pumped(c))

\* ------------------------------------------------------------------------
\* C5
\* ------------------------------------------------------------------------

\* how often x occurs in seq
Count(seq, x) == Cardinality({ i \in 1..Len(seq) : seq[i] = x })

\* the suspended sends of x to the mailbox of Client c
Suspended(c, x) ==
    Cardinality({ k \in Channels : loop[c][k].pc = "blocked" /\ loop[c][k].pend = x })

\* a mailbox holds at most 10 lines, and every line offered to it is in the
\* lines enqueued or held by a producer that waits for room
NothingDropped ==
    \A c \in Clients :
        /\ Len(Msg[c]) <= 10
        /\ Len(offered[c]) = Len(enq[c]) + Len(inbound[c])
                                + Cardinality({ k \in Channels : loop[c][k].pc = "blocked" })
        /\ \A x \in { offered[c][i] : i \in 1..Len(offered[c]) } :
              Count(offered[c], x) = Count(enq[c], x) + Count(inbound[c], x) + Suspended(c, x)

\* C5: in every state every mailbox holds at most 10 lines and nothing offered
\* to it is missing; a producer is suspended only at a mailbox that holds 10
\* lines, stays suspended while it does, and when it goes on its line is the
\* one enqueued; the lines already in a mailbox change only by the pump
\* taking the oldest.
C5_Backpressure ==
    /\ []NothingDropped
    /\ [][\A c \in Clients, k \in Channels :
            /\ loop[c][k].pc # "blocked" /\ loop'[c][k].pc = "blocked" =>
                    Len(Msg[c]) = 10 /\ Msg'[c] = Msg[c]
            /\ loop[c][k].pc = "blocked" /\ loop'[c][k].pc # "blocked" =>
                    /\ Len(Msg[c]) < 10
                    /\ Msg'[c] = Append(Msg[c], loop[c][k].pend)
                    /\ enq'[c] = Append(enq[c], loop[c][k].pend)]_vars
    /\ [][\A c \in Clients :
            /\ Len(inbound'[c]) > Len(inbound[c]) => Len(Msg[c]) = 10 \/ inbound[c] # << >>
            /\ Len(inbound'[c]) < Len(inbound[c]) =>
                    /\ Len(Msg[c]) < 10
                    /\ Msg'[c] = Append(Msg[c], Head(inbound[c]))
            /\ \/ Msg'[c] = Msg[c]
               \/ Msg[c] # << >> /\ Msg'[c] = Tail(Msg[c])
               \/ /\ Len(Msg'[c]) = Len(Msg[c]) + 1
                  /\ SubSeq(Msg'[c], 1, Len(Msg[c])) = Msg[c]]_vars

\* C5 witness: a command loop is suspended with its line at its own mailbox,
\* which holds 10 lines; the line is the eleventh offered
C5_Witness ==
    \E c \in Clients, k \in Channels :
        /\ loop[c][k].pc = "blocked"
        /\ loop[c][k].pend = "-> Invalid command: /bogus"
        /\ Len(Msg[c]) = 10
        /\ Len(offered[c]) = 11

\* reached under SpecMail: eleven lines were offered to a mailbox and all
\* eleven have been enqueued, the pump having taken one
C5_AllEnqueued ==
    \E c \in Clients :
        /\ Len(offered[c]) = 11
        /\ Len(enq[c]) = 11
        /\ Len(Msg[c]) = 10

\* reached under SpecMail: a broadcast line waits for room at a full mailbox
\* while its sender reads on
C5_BroadcastWaits ==
    \E c \in Clients :
        /\ inbound[c] # << >>
        /\ Len(Msg[c]) = 10
        /\ ev.kind = "line"
        /\ ev.c # c
        /\ loop[ev.c][ev.k].pc \in { "top", "read" }

\* ------------------------------------------------------------------------
\* C7
\* ------------------------------------------------------------------------

\* duration tokens that parse, with their length in seconds
Parsable == { << "1s", 1 >>, << "2s", 2 >>, << "-1s", 0 - 1 >> }

\* the registered sessions of a name
Named(n) == { t \in clients : Name[t] = n }

\* C7: a line "/silence NAME D" with a duration D that parses, handled at time
\* t for an operator while a session of that name is registered, sets that
\* session's silencedUntil to t + D; a chat or /me line handled at a time
\* strictly before its sender's silencedUntil is rejected, one handled at or
\* after it is broadcast; and silencedUntil changes by /silence lines alone:
\* nothing clears it when the window ends.
C7_SilenceWindow ==
    /\ [][LineStep =>
            LET c == ev'.c
            IN  /\ \A d \in Parsable, n \in { "alice", "bob" } :
                      ev'.line = "/silence " \o n \o " " \o d[1]
                          /\ Fingerprint(c) \in admins /\ Named(n) # {} =>
                      \A t \in Named(n) : silencedUntil'[t] = now + d[2]
                /\ IsChatLine(ev'.line) \/ IsMeLine(ev'.line) =>
                      IF now < silencedUntil[c]
                      THEN ev'.calls = << RejectionTo(c) >>
                      ELSE /\ Len(ev'.calls) = 1
                           /\ ev'.calls[1].op = "Broadcast"
                           /\ ev'.calls[1].msg = Composed(Name[c], ev'.line)]_vars
    /\ [][silencedUntil' # silencedUntil => LineStep /\ HasVerb(ev'.line, "/silence")]_vars

\* C7 witness: a session that was silenced has a line broadcast at the very
\* instant its window ends
C7_Witness ==
    /\ ev.kind = "line"
    /\ IsChatLine(ev.line) \/ IsMeLine(ev.line)
    /\ ev.until > 1
    /\ ev.at = ev.until
    /\ Len(ev.calls) = 1
    /\ ev.calls[1].op = "Broadcast"
    /\ silencedUntil[ev.c] = ev.until

\* reached under SpecSilence: a line handled one second before the window
\* ends is rejected
C7_JustBefore ==
    /\ ev.kind = "line"
    /\ IsChatLine(ev.line) \/ IsMeLine(ev.line)
    /\ ev.at > 1
    /\ ev.until = ev.at + 1
    /\ ev.calls = << RejectionTo(ev.c) >>

\* ------------------------------------------------------------------------
\* C8
\* ------------------------------------------------------------------------

\* third parts of a /silence line that are no duration
Unparsable == { "abc", "10", "", "2s now" }

\* C8: for an operator and a registered target bob, the line "/silence bob"
\* and every line "/silence bob X" with X no duration have one and the same
\* effect: bob's silencedUntil becomes now + 300 seconds, the one line
\* "-> Silenced for 5m0s by ISSUER." is written on bob's terminal, and no line
\* is offered to any mailbox or written on any other terminal.
C8_DefaultDuration ==
    [][LineStep /\ ev'.line \in { "/silence bob" } \cup { "/silence bob " \o x : x \in Unparsable }
                /\ Fingerprint(ev'.c) \in admins /\ Named("bob") # {} =>
        \A t \in Named("bob") :
            /\ silencedUntil'[t] = now + 300
            /\ \A u \in Clients \ { t } : silencedUntil'[u] = silencedUntil[u]
            /\ termOut'[t] = Append(termOut[t],
                                    [line |-> "-> Silenced for 5m0s by " \o Name[ev'.c] \o ".",
                                     via |-> "direct"])
            /\ \A u \in Clients \ { t } : termOut'[u] = termOut[u]
            /\ offered' = offered
            /\ enq' = enq
            /\ inbound' = inbound
            /\ Len(ev'.calls) = 2
    ]_vars

\* C8 witness: an operator's "/silence bob abc" has silenced bob for 300
\* seconds from the time of the line
C8_Witness ==
    /\ ev.kind = "line"
    /\ ev.line = "/silence bob abc"
    /\ ev.wasOp
    /\ \E t \in Named("bob") :
          /\ silencedUntil[t] = ev.at + 300
          /\ termOut[t] # << >>
          /\ termOut[t][Len(termOut[t])].line = "-> Silenced for 5m0s by alice."

\* reached under SpecSilence: "/silence bob", the same
C8_NoToken ==
    /\ ev.kind = "line"
    /\ ev.line = "/silence bob"
    /\ ev.wasOp
    /\ \E t \in Named("bob") :
          /\ silencedUntil[t] = ev.at + 300
          /\ termOut[t] # << >>
          /\ termOut[t][Len(termOut[t])].line = "-> Silenced for 5m0s by alice."

\* ------------------------------------------------------------------------
\* C9
\* ------------------------------------------------------------------------

\* the payload of event e has all its fields
Complete(e) == Len(e.payload) = 6

\* the last call of event e is the reply ok
Replied(e, ok) ==
    /\ e.calls # << >>
    /\ e.calls[Len(e.calls)] = [op |-> "Reply", to |-> e.c, msg |-> "", arg |-> ok]

\* C9: a pty-req or window-change request whose payload is truncated, or whose
\* SetSize fails, leaves termWidth and termHeight as they were and, when it
\* wants a reply, is answered false; one that parses and resizes stores the
\* payload's width and height, both, and is answered true; no request closes
\* the connection or the channel being served; and the stored geometry
\* changes in no other step.
C9_GeometryKept ==
    /\ [][ReqStep /\ ev'.line \in { "pty-req", "window-change" } =>
            LET c == ev'.c
            IN  /\ IF Complete(ev') /\ ~ev'.failed
                   THEN /\ termWidth'[c] = ev'.payload[2]
                        /\ termHeight'[c] = ev'.payload[3]
                        /\ ev'.want => Replied(ev', TRUE)
                   ELSE /\ termWidth'[c] = termWidth[c]
                        /\ termHeight'[c] = termHeight[c]
                        /\ ev'.want => Replied(ev', FALSE)
                /\ ~ev'.want => \A i \in 1..Len(ev'.calls) : ev'.calls[i].op # "Reply"
                /\ UNCHANGED << connOpen, chanOpen, nch >>]_vars
    /\ [][termWidth' # termWidth \/ termHeight' # termHeight =>
            /\ ReqStep
            /\ ev'.line \in { "pty-req", "window-change" }
            /\ Complete(ev')
            /\ ~ev'.failed
            /\ \A t \in Clients \ { ev'.c } :
                  termWidth'[t] = termWidth[t] /\ termHeight'[t] = termHeight[t]]_vars

\* C9 witness: a truncated pty-req that wanted a reply was answered false and
\* the geometry a window-change had stored before is still there
C9_Witness ==
    /\ ev.kind = "req"
    /\ ev.line = "pty-req"
    /\ ~Complete(ev)
    /\ Replied(ev, FALSE)
    /\ termWidth[ev.c] = 120
    /\ termHeight[ev.c] = 40

\* reached under SpecPty: a window-change whose SetSize failed was answered
\* false and the geometry of the pty-req is still there
C9_ResizeFailed ==
    /\ ev.kind = "req"
    /\ ev.line = "window-change"
    /\ Complete(ev)
    /\ ev.failed
    /\ Replied(ev, FALSE)
    /\ termWidth[ev.c] = 80
    /\ termHeight[ev.c] = 24

\* ------------------------------------------------------------------------
\* C11
\* ------------------------------------------------------------------------

\* the line is a /ban of an operator that names a registered session
BanSucceeds(c, line) ==
    /\ Fingerprint(c) \in admins
    /\ \E t \in clients : line = "/ban " \o Name[t]

\* C11: a command loop ends only from a ReadLine on a closed channel; after
\* any line it has handled it is still running, on its way to the next
\* ReadLine (or waiting for room in its own mailbox with the notice); a line
\* other than /exit and a /ban that succeeds closes no channel and no
\* connection; /exit closes the issuer's channel alone and a /ban that
\* succeeds the connection of its target alone.
C11_OnlyReadFailureStops ==
    /\ [][LineStep =>
            LET c == ev'.c
                k == ev'.k
            IN  /\ loop'[c][k].pc \in { "top", "blocked" }
                /\ ev'.line # "/exit" /\ ~BanSucceeds(c, ev'.line) =>
                        connOpen' = connOpen /\ chanOpen' = chanOpen
                /\ ev'.line = "/exit" =>
                        /\ connOpen' = connOpen
                        /\ chanOpen' = [chanOpen EXCEPT ![c] = @ \ { k }]
                /\ BanSucceeds(c, ev'.line) =>
                        \A t \in Clients : Name[t] # SubSeq(ev'.line, 6, Len(ev'.line)) =>
                            connOpen'[t] = connOpen[t] /\ chanOpen'[t] = chanOpen[t]]_vars
    /\ [][\A c \in Clients, k \in Channels :
            loop[c][k].pc # "done" /\ loop'[c][k].pc = "done" =>
                loop[c][k].pc = "read" /\ loop[c][k].rt \notin chanOpen[c]]_vars

\* C11 witness: an operator's /ban of a name nobody has was answered with a
\* notice, and the issuer's loop is in its next ReadLine on its open channel
C11_Witness ==
    /\ ev.kind = "line"
    /\ ev.line = "/ban nobody"
    /\ ev.wasOp
    /\ ev.calls = << SendOf(ev.c, "-> No such name: nobody") >>
    /\ Reading(ev.c, ev.k)
    /\ connOpen[ev.c]

\* reached under SpecCmd: a silenced session's chat line was rejected and its
\* loop is in its next ReadLine on its open channel
C11_AfterRejectedChat ==
    /\ ev.kind = "line"
    /\ ev.line = "hi"
    /\ ev.calls = << RejectionTo(ev.c) >>
    /\ Reading(ev.c, ev.k)

\* ------------------------------------------------------------------------
\* C12: one writer per terminal
\* ------------------------------------------------------------------------

\* the lines written to the terminal of Client c, by any writer
Written(c) == [i \in 1..Len(termOut[c]) |-> termOut[c][i].line]

\* C12: every line on a session's terminal was enqueued in that session's
\* mailbox and written by its pump: the terminal shows a prefix of what was
\* enqueued, and no line was written by another task. The /help and /about
\* texts and the notices to the target of /ban, /op and /silence are written
\* by the issuer's command loop straight to the terminal, so this fails.
C12_OnlyPumpWrites ==
    \A c \in Clients :
        /\ \A i \in 1..Len(termOut[c]) : termOut[c][i].via = "pump"
        /\ Len(Written(c)) <= Len(enq[c])
        /\ Written(c) = SubSeq(enq[c], 1, Len(Written(c)))

\* ------------------------------------------------------------------------
\* C13: the order of the checks of /ban, /op and /silence
\* ------------------------------------------------------------------------

\* the verbs of the moderation commands
Moderation == { "/ban", "/op", "/silence" }

\* the first of the three checks that fails for the words of a line handled
\* for Client c, or "none": the issuer is no operator; the argument count is
\* wrong (other than one name for /ban and /op, no name for /silence); no
\* registered session has the name
FirstFailure(c, words) ==
    IF Fingerprint(c) \notin admins THEN "denied"
    ELSE IF (words[1] = "/silence" /\ Len(words) < 2) \/ (words[1] # "/silence" /\ Len(words) # 2)
         THEN "count"
    ELSE IF \A t \in clients : Name[t] # words[2] THEN "lookup"
    ELSE "none"

\* the notice of a failed check
NoticeOf(failure, words) ==
    CASE failure = "denied" -> "-> You're not an admin."
      [] failure = "count" -> "-> Missing $NAME from: " \o words[1] \o " $NAME"
      [] failure = "lookup" -> "-> No such name: " \o words[2]

\* C13: for a /ban, /op or /silence line the first check that fails, in the
\* order operator, argument count, target lookup, decides: the only call of
\* the turn is one send of that check's notice to the issuer's own mailbox;
\* the banned set, the operators, every silencedUntil, every connection and
\* channel, every terminal and every other mailbox stay as they were.
C13_CheckOrder ==
    [][LineStep /\ SplitN(ev'.line, " ", 3)[1] \in Moderation
                /\ FirstFailure(ev'.c, SplitN(ev'.line, " ", 3)) # "none" =>
        LET words == SplitN(ev'.line, " ", 3)
            notice == NoticeOf(FirstFailure(ev'.c, words), words)
        IN  /\ ev'.calls = << SendOf(ev'.c, notice) >>
            /\ OnlyTo(ev'.c, notice)
            /\ banned' = banned
            /\ admins' = admins
            /\ silencedUntil' = silencedUntil
            /\ connOpen' = connOpen
            /\ chanOpen' = chanOpen
            /\ termOut' = termOut
    ]_vars

\* C13 witness: an operator has issued /ban with two arguments, the first of
\* them no session's name; the notice is the missing-name one, nobody is banned
C13_Witness ==
    /\ ev.kind = "line"
    /\ ev.line = "/ban nobody now"
    /\ ev.wasOp
    /\ enq[ev.c] # << >>
    /\ enq[ev.c][Len(enq[ev.c])] = "-> Missing $NAME from: /ban $NAME"
    /\ banned = {}
    /\ \A t \in Clients : connOpen[t]

\* a session that is no operator has named nobody's name with one argument
\* too many: the denial, decided by the first check
C13_DeniedFirst ==
    /\ ev.kind = "line"
    /\ ev.line = "/op nobody"
    /\ ~ev.wasOp
    /\ ev.calls = << SendOf(ev.c, "-> You're not an admin.") >>

\* an operator has silenced an unknown name: the third check decides
C13_UnknownTarget ==
    /\ ev.kind = "line"
    /\ ev.line = "/silence nobody 2s"
    /\ ev.wasOp
    /\ ev.calls = << SendOf(ev.c, "-> No such name: nobody") >>
    /\ \A t \in Clients : silencedUntil[t] = 0

\* ------------------------------------------------------------------------
\* C14: the effects of a successful /ban
\* ------------------------------------------------------------------------

\* Client t is banned and still registered
BannedInside(t) == t \in clients /\ Fingerprint(t) \in banned

\* C14: a /ban NAME handled for an operator, NAME being the name of a
\* registered session t, makes four calls in this order: the notice
\* "-> Banned by ISSUER." written to t, the ban of t's fingerprint, the close
\* of t's connection, the broadcast of "* NAME was banned by ISSUER" with no
\* exclusion. After the step the notice is on t's terminal (if its connection
\* was still open), the fingerprint is banned, the connection is closed and
\* the announcement has been offered to
\* every registered session, the issuer and t among them. A banned session
\* that is still registered is in the end removed, once, by its close-watcher.
C14_BanInOrder ==
    /\ [][LineStep /\ BanSucceeds(ev'.c, ev'.line) =>
            LET c == ev'.c
                name == SubSeq(ev'.line, 6, Len(ev'.line))
                t == CHOOSE x \in clients : Name[x] = name
                notice == "-> Banned by " \o Name[c] \o "."
                announcement == "* " \o name \o " was banned by " \o Name[c]
            IN  /\ Len(ev'.calls) = 4
                /\ ev'.calls[1] = [op |-> "TermWrite", to |-> t, msg |-> notice, arg |-> 0]
                /\ ev'.calls[2] = [op |-> "Ban", to |-> t, msg |-> Fingerprint(t), arg |-> 0]
                /\ ev'.calls[3] = [op |-> "ConnClose", to |-> t, msg |-> "", arg |-> 0]
                /\ ev'.calls[4] = [op |-> "Broadcast", to |-> None, msg |-> announcement, arg |-> 0]
                /\ connOpen[t] => termOut'[t] = Append(termOut[t], [line |-> notice, via |-> "direct"])
                /\ banned' = banned \cup { Fingerprint(t) }
                /\ ~connOpen'[t]
                /\ clients' = clients
                /\ \A x \in clients : offered'[x] = Append(offered[x], announcement)
       ]_vars
    /\ \A t \in Clients : BannedInside(t) ~> (t \notin clients /\ removes[t] = 1)

\* C14 witness: operator alice has banned bob; bob has the notice on its
\* terminal, its connection is closed, its close-watcher has removed it, and
\* the announcement is in alice's mailbox
C14_Witness ==
    /\ ev.kind = "line"
    /\ ev.line = "/ban bob"
    /\ ev.wasOp
    /\ \E t \in Clients :
          /\ Name[t] = "bob"
          /\ Fingerprint(t) \in banned
          /\ ~connOpen[t]
          /\ termOut[t] = << [line |-> "-> Banned by alice.", via |-> "direct"] >>
          /\ t \notin clients
          /\ removes[t] = 1
    /\ enq[ev.c] = << "* bob was banned by alice" >>

\* the moment between: bob is banned and closed, and still registered
C14_BannedInside ==
    \E t \in Clients : BannedInside(t) /\ ~connOpen[t] /\ watchers[t] = 1

\* ------------------------------------------------------------------------
\* C15: /exit ends the command loop
\* ------------------------------------------------------------------------

\* the command loop started on channel k of Client c is alive and its channel
\* is closed; in the /exit runs only the loop's own /exit brings that about
Exited(c, k) == loop[c][k].pc \notin { "none", "done" } /\ k \notin chanOpen[c]

\* C15: once /exit has closed the channel of a command loop, that loop
\* handles no further line, and a read it begins is one that fails, whatever
\* handleChannels does meanwhile. A session channel accepted between the
\* close and the loop's next read gives the loop a terminal it can read, so
\* this fails.
C15_ExitEndsLoop ==
    [][\A c \in Clients, k \in Channels : Exited(c, k) =>
            /\ ~(LineStep /\ ev'.c = c /\ ev'.k = k)
            /\ loop'[c][k].pc = "read" => loop'[c][k].rt \notin chanOpen'[c]
      ]_vars

\* a loop that handled /exit has handled a chat line after it, read on the
\* terminal of the second channel
C15_ReadsOn ==
    /\ ev.kind = "line"
    /\ ev.line = "hi"
    /\ ev.k = 1
    /\ 1 \notin chanOpen[ev.c]
    /\ term[ev.c] = 2

\* ------------------------------------------------------------------------
\* C16: the end of the command loop and deregistration
\* ------------------------------------------------------------------------

\* a command loop of Client c has ended
LoopEnded(c) == \E k \in Channels : loop[c][k].pc = "done"

\* C16: a registered session whose command loop has ended is in the end
\* removed from the registry. The close-watcher waits for the connection, and
\* the end of the loop closes only the channel: a session whose peer keeps the
\* connection stays registered with every task of it waiting, so this fails.
C16_EndedLoopDeregisters ==
    \A c \in Clients : (c \in clients /\ LoopEnded(c)) ~> (c \notin clients)

\* a session has left by /exit, its loop has ended, its channel is closed, and
\* it is registered on an open connection with its close-watcher waiting
C16_Ghost ==
    /\ ev.kind = "line"
    /\ ev.line = "/exit"
    /\ loop[ev.c][ev.k].pc = "done"
    /\ chanOpen[ev.c] = {}
    /\ connOpen[ev.c]
    /\ ev.c \in clients
    /\ watchers[ev.c] = 1
    /\ ~ENABLED Watcher(ev.c)

\* ------------------------------------------------------------------------
\* C17: the scope of the shell guard
\* ------------------------------------------------------------------------

\* the channels of Client c on which a command loop was started
Shells(c) == { k \in Channels : loop[c][k].pc # "none" }

\* the first channel of Client c on which "shell" was requested
FirstAsked(c) == CHOOSE k \in asked[c] : \A j \in asked[c] : k <= j

\* C17 as stated, the guard scoped to the channel: every channel on which
\* "shell" was requested has a command loop of its own.
C17_ShellPerChannel ==
    \A c \in Clients : \A k \in asked[c] : k \in Shells(c)

\* C17, amended, the guard scoped to the connection: of the session channels
\* accepted one after another on a connection, only the first on which
\* "shell" was requested ever has a command loop; a "shell" request on a
\* later channel starts no loop, no pump and no further registration.
C17_ShellPerConnection ==
    \A c \in Clients :
        /\ asked[c] = {} => Shells(c) = {}
        /\ asked[c] # {} => Shells(c) = { FirstAsked(c) }
        /\ adds[c] = (IF Shells(c) # {} /\ loop[c][FirstAsked(c)].pc # "start" THEN 1 ELSE 0)
        /\ pumps[c] = adds[c]

\* C17 witness: a connection whose shell was started on its first channel,
\* which has since been closed, has had "shell" requested on its second
\* channel: that channel is open and has no command loop, and the session was
\* registered once and has one pump
C17_Witness ==
    \E c \in Clients :
        /\ asked[c] = { 1, 2 }
        /\ 1 \notin chanOpen[c]
        /\ 2 \in chanOpen[c]
        /\ loop[c][1].pc \notin { "none", "start" }
        /\ loop[c][2].pc = "none"
        /\ adds[c] = 1
        /\ pumps[c] = 1
        /\ ev.kind = "req" /\ ev.c = c /\ ev.k = 2 /\ ev.line = "shell"
        /\ ev.calls = Answer(ev, FALSE)

\* ------------------------------------------------------------------------
\* C18: a full mailbox holds up nobody else
\* ------------------------------------------------------------------------

\* the mailbox of Client t is at capacity
Full(t) == Len(Msg[t]) = MSG_BUFFER

\* a line offered to the mailbox of Client t now is enqueued at once
Free(t) == Len(Msg[t]) < MSG_BUFFER /\ inbound[t] = << >>

SilenceTable ==
    { [line |-> "/silence bob 1s", name |-> "bob", d |-> 1],
      [line |-> "/silence bob 2s", name |-> "bob", d |-> 2],
      [line |-> "/silence bob -1s", name |-> "bob", d |-> 0 - 1],
      [line |-> "/silence alice 1s", name |-> "alice", d |-> 1],
      [line |-> "/silence bob", name |-> "bob", d |-> DEFAULT_SILENCE],
      [line |-> "/silence bob abc", name |-> "bob", d |-> DEFAULT_SILENCE] }

\* C19: while the last line handled is a /silence of an operator, the
\* silencedUntil of its target is the time of that line plus that line's
\* duration, whatever /silence lines came before; and a /silence whose new
\* expiry lies before the target's current one moves the expiry back to it.
C19_SilenceOverwrites ==
    /\ [](\A e \in SilenceTable :
            ev.kind = "line" /\ ev.line = e.line /\ ev.wasOp =>
                \A t \in Named(e.name) : silencedUntil[t] = ev.at + e.d)
    /\ [][\A e \in SilenceTable :
            LineStep /\ ev'.line = e.line /\ Fingerprint(ev'.c) \in admins =>
                \A t \in Named(e.name) :
                    /\ silencedUntil[t] > now + e.d => silencedUntil'[t] < silencedUntil[t]
                    /\ silencedUntil[t] > now => silencedUntil'[t] # silencedUntil[t] + e.d]_vars

\* C19 witness: bob was silenced for the default five minutes and then, a
\* second or more later, for one second: his window ends one second after
\* the second line, long before the first one's expiry
C19_Witness ==
    /\ ev.kind = "line"
    /\ ev.line = "/silence bob 1s"
    /\ ev.wasOp
    /\ ev.at >= 2
    /\ \E t \in Named("bob") :
          /\ silencedUntil[t] = ev.at + 1
          /\ Len(termOut[t]) = 2
          /\ termOut[t][1].line = "-> Silenced for 5m0s by alice."
          /\ termOut[t][2].line = "-> Silenced for 1s by alice."

\* ------------------------------------------------------------------------
\* C20: the pump runs for good
\* ------------------------------------------------------------------------

\* the most lines a mailbox is offered in the draining runs
MaxOffered == MaxDrainLines

C20_WaitingAfterClose ==
    /\ ~connOpen[1]
    /\ loop[1][1].pc = "blocked"
    /\ inbound[1] = << "bob: hi" >>
    /\ Len(Msg[1]) = MSG_BUFFER

====
